---- MODULE Spec2Model ----
(***************************************************************************)
(* A model of compiler/globals.py of OpenRAM: the option store OPTS, its   *)
(* checkpoint CHECKPOINT_OPTS, the bootstrap init_openram and the steps it *)
(* calls (check_versions, setup_paths, read_config, import_tech), the      *)
(* directory clean-up cleanup_paths and the tool lookup get_tool/find_exe. *)
(*                                                                         *)
(* Paths are sequences of tokens, "/" being the separator token, so that   *)
(* endswith('/'), startswith('/') and string concatenation are computed.   *)
(* A Python dict is a function whose DOMAIN is the set of keys present.    *)
(* A structured value (a list) is held by reference: the dict holds the    *)
(* name of a heap object and the heap holds its contents.                  *)
(***************************************************************************)
EXTENDS Integers, Sequences, FiniteSets, TLC

\* ----------------------------------------------------------------- bounds
\* init_openram calls in one process
MaxBoots == 2
\* changes the caller makes to the store (assignments, in-place changes)
MaxEdits == 1
\* entries the surrounding pipeline drops into a managed directory
MaxEntries == 3
\* longest preference list handed to get_tool
MaxPrefs == 3

\* -------------------------------------------------------------- constants
\* 0o750, the mode of both managed directories
DirMode == 488
\* 0o777, the mode a directory made by somebody else may have
OpenMode == 7 * 64 + 7 * 8 + 7

\* the umasks a process may run under: 0o022 and 0o077
Umasks == {2 * 8 + 2, 7 * 8 + 7}

\* ------------------------------------------------------------------ dicts
EmptyDict == [k \in {} |-> ""]

Put(d, k, v) == [x \in DOMAIN d \cup {k} |-> IF x = k THEN v ELSE d[x]]

Update(d, e) == [x \in DOMAIN d \cup DOMAIN e |-> IF x \in DOMAIN e THEN e[x] ELSE d[x]]

\* ------------------------------------------------------------------ paths
Cwd == <<"/", "home">>

EndsWithSep(p) == p /= <<>> /\ p[Len(p)] = "/"

StartsWithSep(p) == p /= <<>> /\ p[1] = "/"

IsComponent(t) == t /= "/" /\ t /= "."

\* the directory a path names: its components from the root
Canon(p) ==
    IF StartsWithSep(p) THEN SelectSeq(p, IsComponent)
    ELSE SelectSeq(Cwd, IsComponent) \o SelectSeq(p, IsComponent)

\* mode & ~umask on 9-bit modes
RECURSIVE AndNot(_, _)
AndNot(a, b) ==
    IF a = 0 THEN 0
    ELSE (IF a % 2 = 1 /\ b % 2 = 0 THEN 1 ELSE 0) + 2 * AndNot(a \div 2, b \div 2)

\* ----------------------------------------------------- values of the store
IntVal(t) == [isint |-> TRUE, text |-> t]

StrVal(t) == [isint |-> FALSE, text |-> t]

TempSlash == <<"/", "tmp", "/", "t", "/">>

TempNoSlash == <<"/", "tmp", "/", "t">>

\* the class attributes of options.options: what OPTS.<k> reads when k is
\* not in OPTS.__dict__
OptionsClass(temp) ==
    [tech_name |-> "",
     openram_temp |-> temp,
     output_path |-> <<".">>,
     output_name |-> <<>>,
     purge_temp |-> TRUE,
     is_unit_test |-> FALSE,
     netlist_only |-> FALSE,
     check_lvsdrc |-> TRUE,
     word_size |-> IntVal("1"),
     num_words |-> IntVal("16"),
     num_banks |-> IntVal("1"),
     num_rw_ports |-> IntVal("1"),
     num_w_ports |-> IntVal("0"),
     num_r_ports |-> IntVal("0"),
     process_corners |-> "",
     supply_voltages |-> "",
     temperatures |-> "",
     openram_tech |-> <<>>]

\* the technologies installed under $OPENRAM_TECH
Techs == {"scn3me_subm", "freepdk45"}

\* the config scripts a caller may name, each with the attributes it defines
Scripts ==
    [config_scn |-> [tech_name |-> "scn3me_subm", word_size |-> IntVal("2"),
                     num_words |-> IntVal("16"), num_banks |-> IntVal("1")],
     config_45 |-> [tech_name |-> "freepdk45", word_size |-> IntVal("4"),
                    output_path |-> <<"/", "tmp", "/", "y">>,
                    output_name |-> <<"cfg">>, purge_temp |-> TRUE,
                    netlist_only |-> TRUE],
     config_bad |-> [word_size |-> StrVal("2"), num_words |-> IntVal("16"),
                     output_path |-> <<"out">>,
                     openram_temp |-> <<"/", "tmp", "/", "u", "/">>,
                     supply_voltages |-> "supply_voltages@config_bad"],
     config_bogus |-> [tech_name |-> "bogus"]]

ConfigFiles == DOMAIN Scripts \cup {"config_missing"}

\* the option sets a command line may give (parser.parse_args(values=OPTS))
CommandLines ==
    {EmptyDict,
     [tech_name |-> "scmos", output_name |-> <<"foo">>, purge_temp |-> FALSE],
     [tech_name |-> "freepdk45", output_path |-> <<"/", "tmp", "/", "x">>],
     [output_path |-> <<"rel">>]}

\* ------------------------------------------------------------------ state
VARIABLES
    OPTS,             \* OPTS.__dict__
    CHECKPOINT_OPTS,  \* [set |-> FALSE] for None, else the copy's __dict__
    options_class,    \* the class attributes behind OPTS
    heap,             \* contents of the structured values, by object name
    fs,               \* the directories that exist: Canon path -> mode, entries
    umask,            \* the process umask
    host,             \* what the host lacks, if anything
    pc,               \* where init_openram stands
    call,             \* the init_openram call in progress (or the last one)
    log,              \* what the last read_config saw before and after its merge
    proc,             \* "running", or how the process ended
    boots,            \* init_openram calls so far
    edits,            \* store changes by the caller so far
    tools,            \* the state of the tool lookup
    argv,             \* the options on the process's command line
    trail             \* the last directory operations called on their own

vars == <<OPTS, CHECKPOINT_OPTS, options_class, heap, fs, umask, host, pc,
          call, log, proc, boots, edits, tools, argv, trail>>

\* OPTS.<k>: the instance attribute, else the class attribute
Get(opts, k) == IF k \in DOMAIN opts THEN opts[k] ELSE options_class[k]

\* --------------------------------------------------------- debug (fatal)
\* debug.error / a failed debug.check: the message is reported and the
\* process ends with a non-zero exit status
debug_error(msg) == [state |-> "fatal", error |-> msg, exit |-> "nonzero"]

\* an exception nobody catches: traceback, exit status 1
uncaught(exc) == [state |-> "crashed", error |-> exc, exit |-> "nonzero"]

Running == [state |-> "running", error |-> "", exit |-> "none"]

\* ------------------------------------------------------------- parse_args
parse_args_opts(opts, cli) ==
    LET o1 == Update(opts, cli)
        o2 == IF Get(o1, "tech_name") = "" THEN Put(o1, "tech_name", "scmos") ELSE o1
    IN  IF Get(o2, "tech_name") = "scmos" THEN Put(o2, "tech_name", "scn3me_subm") ELSE o2

\* ------------------------------------------------------------ directories
Entry(n, k, t) == [name |-> n, kind |-> k, target |-> t]

\* what a managed directory may hold
Catalogue ==
    {Entry("f", "file", ""), Entry("lf", "symlink", "file"),
     Entry("ld", "symlink", "dir"), Entry("lx", "symlink", "none"),
     Entry("d", "dir", "empty"), Entry("dd", "dir", "nonempty")}

\* os.path.isfile follows symbolic links, os.path.islink does not
isfile(e) == e.kind = "file" \/ (e.kind = "symlink" /\ e.target = "file")

islink(e) == e.kind = "symlink"

\* os.remove unlinks anything but a directory; shutil.rmtree removes a
\* directory with all it holds and raises on anything else
os_remove_ok(e) == e.kind /= "dir"

rmtree_ok(e) == e.kind = "dir"

\* the loop body of cleanup_paths: whether entry e is removed (else it raises)
removes_mut(e) == IF isfile(e) THEN os_remove_ok(e) ELSE rmtree_ok(e)

removes(e) == IF isfile(e) \/ islink(e) THEN os_remove_ok(e) ELSE rmtree_ok(e)

Dir(m, es) == [mode |-> m, entries |-> es]

\* cleanup_paths: the outcomes it may have. os.listdir gives no order, so
\* when some entry makes the loop raise, any set of the other entries may
\* have been removed before it.
cleanup_paths_purge(opts, fsys) ==
    LET d == Canon(Get(opts, "openram_temp"))
    IN  IF d \notin DOMAIN fsys THEN {[fs |-> fsys, raised |-> FALSE]}
        ELSE LET es == fsys[d].entries
                 bad == {e \in es : ~removes(e)}
             IN  IF bad = {}
                 THEN {[fs |-> [fsys EXCEPT ![d].entries = {}], raised |-> FALSE]}
                 ELSE {[fs |-> [fsys EXCEPT ![d].entries = es \ gone], raised |-> TRUE] :
                          gone \in SUBSET (es \ bad)}

cleanup_paths_always(opts, fsys) == cleanup_paths_purge(opts, fsys)

cleanup_paths_inverted(opts, fsys) ==
    IF Get(opts, "purge_temp") THEN {[fs |-> fsys, raised |-> FALSE]}
    ELSE cleanup_paths_purge(opts, fsys)

\* "if not OPTS.purge_temp: ... return", else the purge
cleanup_paths_outcomes(opts, fsys) ==
    IF ~Get(opts, "purge_temp") THEN {[fs |-> fsys, raised |-> FALSE]}
    ELSE cleanup_paths_purge(opts, fsys)

makedirs_or_chmod_fresh(fsys, path, um) ==
    [x \in DOMAIN fsys \cup {Canon(path)} |->
        IF x = Canon(path) THEN Dir(DirMode, {}) ELSE fsys[x]]

\* os.makedirs(path, 0o750), and os.chmod(path, 0o750) when it raises EEXIST
makedirs_or_chmod_mut(fsys, path, um) ==
    LET d == Canon(path)
    IN  IF d \in DOMAIN fsys THEN fsys
        ELSE [x \in DOMAIN fsys \cup {d} |->
                 IF x = d THEN Dir(AndNot(DirMode, um), {}) ELSE fsys[x]]

makedirs_or_chmod(fsys, path, um) ==
    LET d == Canon(path)
    IN  IF d \in DOMAIN fsys THEN [fsys EXCEPT ![d].mode = DirMode]
        ELSE [x \in DOMAIN fsys \cup {d} |->
                 IF x = d THEN Dir(AndNot(DirMode, um), {}) ELSE fsys[x]]

\* setup_paths, lines 296-297: the temp path ends with a separator
temp_normalized(opts) ==
    IF ~EndsWithSep(Get(opts, "openram_temp"))
    THEN Put(opts, "openram_temp", Append(Get(opts, "openram_temp"), "/"))
    ELSE opts

\* ------------------------------------------------------------ read_config
\* the merge loop
merge_mut(opts, config) == Update(opts, config)

merge_no_exception(opts, config) ==
    [k \in DOMAIN opts \cup DOMAIN config |-> IF k \in DOMAIN opts THEN opts[k] ELSE config[k]]

merge(opts, config) ==
    [k \in DOMAIN opts \cup DOMAIN config |->
        IF k \in DOMAIN config /\ (k \notin DOMAIN opts \/ k = "tech_name")
        THEN config[k] ELSE opts[k]]

output_path_massaged_again(p) ==
    LET q == Append(p, "/")
    IN  IF ~StartsWithSep(q) THEN Cwd \o <<"/">> \o q ELSE q

output_path_massaged_rel(p) == IF ~EndsWithSep(p) THEN Append(p, "/") ELSE p

\* "Massage the output path to be an absolute one"
output_path_massaged(p) ==
    LET q == IF ~EndsWithSep(p) THEN Append(p, "/") ELSE p
    IN  IF ~StartsWithSep(q) THEN Cwd \o <<"/">> \o q ELSE q

\* the default output name
output_name_default(opts) ==
    <<"sram_", Get(opts, "word_size").text, "b_", Get(opts, "num_words").text, "w_",
      Get(opts, "num_banks").text, "bank_", Get(opts, "num_rw_ports").text, "rw_",
      Get(opts, "num_w_ports").text, "w_", Get(opts, "num_r_ports").text, "r_",
      Get(opts, "tech_name")>>

\* read_config after its merge loop, up to the output name
read_config_derived(merged, is_unit_test) ==
    LET o1 == IF output_path_massaged(Get(merged, "output_path")) /= Get(merged, "output_path")
              THEN Put(merged, "output_path", output_path_massaged(Get(merged, "output_path")))
              ELSE merged
        o2 == Put(o1, "is_unit_test", is_unit_test)
        o3 == IF Get(o2, "netlist_only") THEN Put(o2, "check_lvsdrc", FALSE) ELSE o2
    IN  IF Get(o3, "output_name") = <<>>
        THEN Put(o3, "output_name", output_name_default(o3))
        ELSE o3

\* ------------------------------------------------------------ import_tech
TechRoot == <<"/", "tech">>

\* the objects tech.spice holds for a technology, by name
SpiceObject(t, k) == k \o "@" \o t

SpiceKeys == {"process_corners", "supply_voltages", "temperatures"}

SpiceObjects == {SpiceObject(t, k) : t \in Techs, k \in SpiceKeys}

import_tech_opts_over(opts) ==
    LET t == Get(opts, "tech_name")
        p == TechRoot \o <<"/", t>>
        o1 == Put(opts, "openram_tech", IF ~EndsWithSep(p) THEN Append(p, "/") ELSE p)
        o2 == Put(o1, "process_corners", SpiceObject(t, "process_corners"))
        o3 == Put(o2, "supply_voltages", SpiceObject(t, "supply_voltages"))
    IN  Put(o3, "temperatures", SpiceObject(t, "temperatures"))

\* lines 337-339 and 354-361: the technology path and the spice defaults
import_tech_opts(opts) ==
    LET t == Get(opts, "tech_name")
        p == TechRoot \o <<"/", t>>
        o1 == Put(opts, "openram_tech", IF ~EndsWithSep(p) THEN Append(p, "/") ELSE p)
        o2 == IF Get(o1, "process_corners") = ""
              THEN Put(o1, "process_corners", SpiceObject(t, "process_corners")) ELSE o1
        o3 == IF Get(o2, "supply_voltages") = ""
              THEN Put(o2, "supply_voltages", SpiceObject(t, "supply_voltages")) ELSE o2
    IN  IF Get(o3, "temperatures") = ""
        THEN Put(o3, "temperatures", SpiceObject(t, "temperatures")) ELSE o3

\* ------------------------------------------------------------- checkpoint
NoCheckpoint == [set |-> FALSE, dict |-> EmptyDict]

\* OPTS.__dict__ = CHECKPOINT_OPTS.__dict__.copy()
restore_mut(opts, cp) == Update(opts, cp.dict)

restore(opts, cp) == cp.dict

\* CHECKPOINT_OPTS = copy.copy(OPTS), when there is none yet: a new object
\* with a new __dict__ holding the same values (a structured value is shared)
capture_mut(opts, cp) == [set |-> TRUE, dict |-> opts]

capture(opts, cp) == IF ~cp.set THEN [set |-> TRUE, dict |-> opts] ELSE cp

\* ------------------------------------------------------ get_tool, find_exe
\* is_exe: os.path.exists(fpath) and os.access(fpath, os.X_OK); t.files says
\* of each <<directory, name>> whether it is absent ("none"), a file without
\* the execute bit ("plain") or one with it ("exec")
is_exe(t, fpath) == t.files[fpath] /= "none" /\ t.files[fpath] = "exec"

\* find_exe: the first directory of PATH holding the executable; <<>> is None
RECURSIVE find_exe_from(_, _, _)
find_exe_from(t, check_exe, i) ==
    IF i > Len(t.PATH) THEN <<>>
    ELSE IF is_exe(t, <<t.PATH[i], check_exe>>) THEN <<t.PATH[i], check_exe>>
    ELSE find_exe_from(t, check_exe, i + 1)

find_exe(t, check_exe) == find_exe_from(t, check_exe, 1)

Returned(name, exe) == [kind |-> "return", found |-> TRUE, name |-> name, exe |-> exe]

\* (None, "")
NotFound == [kind |-> "return", found |-> FALSE, name |-> "", exe |-> <<>>]

Fatal(name) == [kind |-> "fatal", found |-> FALSE, name |-> name, exe |-> <<>>]

\* a loop that walks PATH first and the preferences within each directory
RECURSIVE get_tool_loop_mut(_, _, _)
get_tool_loop_mut(t, preferences, i) ==
    IF i > Len(t.PATH) THEN NotFound
    ELSE LET hits == {j \in 1..Len(preferences) : is_exe(t, <<t.PATH[i], preferences[j]>>)}
         IN  IF hits = {} THEN get_tool_loop_mut(t, preferences, i + 1)
             ELSE LET j == CHOOSE x \in hits : \A y \in hits : x <= y
                  IN  Returned(preferences[j], <<t.PATH[i], preferences[j]>>)

\* get_tool, lines 161-169: the loop over the preferences, from the i-th on
RECURSIVE get_tool_loop(_, _, _)
get_tool_loop(t, preferences, i) ==
    IF i > Len(preferences) THEN NotFound
    ELSE IF find_exe(t, preferences[i]) /= <<>>
    THEN Returned(preferences[i], find_exe(t, preferences[i]))
    ELSE get_tool_loop(t, preferences, i + 1)

get_tool_fallback(t, preferences, default_name) ==
    IF default_name /= "" /\ find_exe(t, default_name) /= <<>>
    THEN Returned(default_name, find_exe(t, default_name))
    ELSE get_tool_loop(t, preferences, 1)

\* get_tool: what it returns, or that it ends the process; default_name ""
\* stands for no default
get_tool_result(t, preferences, default_name) ==
    IF default_name /= ""
    THEN IF find_exe(t, default_name) = <<>>
         THEN Fatal(default_name)
         ELSE Returned(default_name, find_exe(t, default_name))
    ELSE get_tool_loop(t, preferences, 1)

\* ----------------------------------------------------------- report_status
\* the first check that fails ends the process
report_status_mut(opts) ==
    IF Get(opts, "tech_name") = "" THEN debug_error("Tech name must be specified")
    ELSE Running

report_status_result(opts) ==
    IF ~Get(opts, "word_size").isint THEN debug_error("word_size is not an integer")
    ELSE IF ~Get(opts, "num_words").isint
         THEN IF "sram_size" \in DOMAIN opts \cup DOMAIN options_class
              THEN debug_error("num_words is not an integer")
              ELSE uncaught("AttributeError: sram_size")
    ELSE IF ~Get(opts, "num_banks").isint THEN debug_error("num_banks is not an integer")
    ELSE IF Get(opts, "tech_name") = "" THEN debug_error("Tech name must be specified")
    ELSE Running

\* ------------------------------------------------------------------- Init
NoCall ==
    [config_file |-> "", is_unit_test |-> FALSE, had_checkpoint |-> FALSE,
     loaded |-> FALSE, restored |-> FALSE, made |-> {}, temp |-> <<>>,
     out |-> <<>>, tech |-> ""]

NoLog == [pre |-> EmptyDict, config |-> EmptyDict, post |-> EmptyDict, n |-> 0]

NoResult == [kind |-> "none", found |-> FALSE, name |-> "", exe |-> <<>>]

NoTools == [PATH |-> <<>>, files |-> <<>>, preferences |-> <<>>, default_name |-> "",
            result |-> NoResult]

Hosts == {"ok", "old_python", "no_home", "no_tech"}

HomeOnly == [d \in {Canon(Cwd)} |-> Dir(OpenMode, {})]

\* a host where an earlier run left both managed directories behind
UsedHost ==
    [d \in {Canon(Cwd), Canon(TempSlash), <<"tmp", "x">>} |->
        IF d = Canon(Cwd) THEN Dir(OpenMode, {})
        ELSE Dir(OpenMode, {Entry("f", "file", "")})]

InitCommon ==
    /\ OPTS = EmptyDict
    /\ CHECKPOINT_OPTS = NoCheckpoint
    /\ options_class \in {OptionsClass(TempSlash), OptionsClass(TempNoSlash)}
    /\ heap = [o \in SpiceObjects \cup {"supply_voltages@config_bad"} |-> <<"nominal">>]
    /\ pc = "idle"
    /\ call = NoCall
    /\ log = NoLog
    /\ proc = Running
    /\ boots = 0
    /\ edits = 0

Init ==
    /\ InitCommon
    /\ fs \in {HomeOnly, UsedHost}
    /\ umask = 2 * 8 + 2
    /\ host \in Hosts
    /\ argv \in CommandLines
    /\ tools = NoTools
    /\ trail = <<>>

Idle == proc.state = "running" /\ pc \in {"idle", "ready"}

\* ------------------------------------------------------------- parse_args
parse_args ==
    /\ Idle
    /\ OPTS' = parse_args_opts(OPTS, argv)
    /\ pc' = "idle"
    /\ UNCHANGED <<CHECKPOINT_OPTS, options_class, heap, fs, umask, host, call,
                   log, proc, boots, edits, tools, argv, trail>>

\* ----------------------------------------------------------- init_openram
\* the call and its first step, check_versions
init_openram(config_file, is_unit_test) ==
    /\ Idle
    /\ boots < MaxBoots
    /\ boots' = boots + 1
    /\ call' = [NoCall EXCEPT !.config_file = config_file,
                              !.is_unit_test = is_unit_test,
                              !.had_checkpoint = CHECKPOINT_OPTS.set]
    /\ IF host = "old_python"
       THEN proc' = debug_error("Python 3.5 or greater is required") /\ pc' = "idle"
       ELSE proc' = proc /\ pc' = "setup_paths"
    /\ UNCHANGED <<OPTS, CHECKPOINT_OPTS, options_class, heap, fs, umask, host,
                   log, edits, tools, argv, trail>>

\* setup_paths, leaving the caller at nextpc
setup_paths_do(nextpc) ==
    IF host = "no_home"
    THEN /\ proc' = debug_error("$OPENRAM_HOME is not properly defined")
         /\ UNCHANGED <<OPTS, fs, pc, call>>
    ELSE LET o == temp_normalized(OPTS)
         IN  \E r \in cleanup_paths_outcomes(o, fs) :
                /\ OPTS' = o
                /\ IF r.raised
                   THEN /\ fs' = r.fs
                        /\ proc' = uncaught("rmtree")
                        /\ UNCHANGED <<pc, call>>
                   ELSE /\ fs' = makedirs_or_chmod(r.fs, Get(o, "openram_temp"), umask)
                        /\ proc' = proc
                        /\ pc' = nextpc
                        /\ call' = [call EXCEPT
                               !.made = @ \cup ({Canon(Get(o, "openram_temp"))} \ DOMAIN r.fs),
                               !.temp = Canon(Get(o, "openram_temp"))]

setup_paths ==
    /\ proc.state = "running"
    /\ pc = "setup_paths"
    /\ setup_paths_do("read_config")
    /\ UNCHANGED <<CHECKPOINT_OPTS, options_class, heap, umask, host, log, boots,
                   edits, tools, argv, trail>>

\* read_config(config_file, is_unit_test), leaving the caller at nextpc
read_config_do(config_file, is_unit_test, nextpc) ==
    IF config_file \notin DOMAIN Scripts
    THEN /\ proc' = debug_error("Unable to read configuration file")
         /\ UNCHANGED <<OPTS, fs, pc, call, log>>
    ELSE LET config == Scripts[config_file]
             merged == merge(OPTS, config)
             o == read_config_derived(merged, is_unit_test)
             out == Get(o, "output_path")
         IN  /\ OPTS' = o
             /\ log' = [pre |-> OPTS, config |-> config, post |-> merged, n |-> boots]
             /\ fs' = makedirs_or_chmod(fs, out, umask)
             /\ call' = [call EXCEPT !.loaded = TRUE,
                                     !.made = @ \cup ({Canon(out)} \ DOMAIN fs),
                                     !.out = Canon(out)]
             /\ pc' = nextpc
             /\ proc' = proc

read_config ==
    /\ proc.state = "running"
    /\ pc = "read_config"
    /\ read_config_do(call.config_file, call.is_unit_test, "import_tech")
    /\ UNCHANGED <<CHECKPOINT_OPTS, options_class, heap, umask, host, boots, edits, tools, argv, trail>>

import_tech ==
    /\ proc.state = "running"
    /\ pc = "import_tech"
    /\ IF host = "no_tech"
       THEN /\ proc' = debug_error("$OPENRAM_TECH is not properly defined")
            /\ UNCHANGED <<OPTS, pc, call>>
       ELSE IF Get(OPTS, "tech_name") \notin Techs
       THEN /\ proc' = debug_error("Nonexistent technology_setup_file")
            /\ UNCHANGED <<OPTS, pc, call>>
       ELSE /\ OPTS' = import_tech_opts(OPTS)
            /\ call' = [call EXCEPT !.tech = Get(OPTS, "tech_name")]
            /\ pc' = "checkpoint"
            /\ proc' = proc
    /\ log' = NoLog
    /\ UNCHANGED <<CHECKPOINT_OPTS, options_class, heap, fs, umask, host,
                   boots, edits, tools, argv, trail>>

restores_any(is_unit_test, cp) == cp.set

\* "if is_unit_test and CHECKPOINT_OPTS"
restores(is_unit_test, cp) == is_unit_test /\ cp.set

\* lines 123-141: restore the checkpoint, or take it
init_openram_checkpoint ==
    /\ proc.state = "running"
    /\ pc = "checkpoint"
    /\ IF restores(call.is_unit_test, CHECKPOINT_OPTS)
       THEN /\ OPTS' = restore(OPTS, CHECKPOINT_OPTS)
            /\ call' = [call EXCEPT !.restored = TRUE]
            /\ UNCHANGED CHECKPOINT_OPTS
       ELSE /\ CHECKPOINT_OPTS' = capture(OPTS, CHECKPOINT_OPTS)
            /\ UNCHANGED <<OPTS, call>>
    /\ pc' = "ready"
    /\ UNCHANGED <<options_class, heap, fs, umask, host, log, proc, boots, edits, tools, argv, trail>>

\* ------------------------------------------------- the caller, between calls
\* what a caller (a unit test) assigns to options after a bootstrap
Assignments ==
    [output_name |-> <<"edited">>, tech_name |-> "freepdk45"]

assign_option(k) ==
    /\ Idle
    /\ boots > 0
    /\ edits < MaxEdits
    /\ edits' = edits + 1
    /\ OPTS' = Put(OPTS, k, Assignments[k])
    /\ pc' = "idle"
    /\ UNCHANGED <<CHECKPOINT_OPTS, options_class, heap, fs, umask, host, call,
                   log, proc, boots, tools, argv, trail>>

\* OPTS.<k>.append(...): the list object itself changes
change_in_place(k) ==
    /\ Idle
    /\ boots > 0
    /\ edits < MaxEdits
    /\ edits' = edits + 1
    /\ Get(OPTS, k) \in DOMAIN heap
    /\ heap' = [heap EXCEPT ![Get(OPTS, k)] = Append(@, "appended")]
    /\ pc' = "idle"
    /\ UNCHANGED <<OPTS, CHECKPOINT_OPTS, options_class, fs, umask, host, call,
                   log, proc, boots, tools, argv, trail>>

\* the surrounding pipeline, run once init_openram has returned, leaves an
\* entry in a managed directory
pipeline_writes(key, e) ==
    /\ proc.state = "running"
    /\ pc = "ready"
    /\ LET d == Canon(Get(OPTS, key))
       IN  /\ d \in DOMAIN fs
           /\ e \notin fs[d].entries
           /\ Cardinality(fs[d].entries) < MaxEntries
           /\ fs' = [fs EXCEPT ![d].entries = @ \cup {e}]
    /\ pc' = pc
    /\ UNCHANGED <<OPTS, CHECKPOINT_OPTS, options_class, heap, umask, host, call,
                   log, proc, boots, edits, tools, argv, trail>>

report_status ==
    /\ proc.state = "running"
    /\ pc = "ready"
    /\ proc' = report_status_result(OPTS)
    /\ pc' = "reported"
    /\ UNCHANGED <<OPTS, CHECKPOINT_OPTS, options_class, heap, fs, umask, host,
                   call, log, boots, edits, tools, argv, trail>>

cleanup_paths_do ==
    \E r \in cleanup_paths_outcomes(OPTS, fs) :
        /\ fs' = r.fs
        /\ proc' = IF r.raised THEN uncaught("rmtree") ELSE proc

end_openram ==
    /\ proc.state = "running"
    /\ pc \in {"idle", "ready", "reported"}
    /\ boots > 0
    /\ cleanup_paths_do
    /\ pc' = "idle"
    /\ UNCHANGED <<OPTS, CHECKPOINT_OPTS, options_class, heap, umask, host, call,
                   log, boots, edits, tools, argv, trail>>

Next ==
    \/ parse_args
    \/ \E f \in ConfigFiles, u \in BOOLEAN : init_openram(f, u)
    \/ setup_paths
    \/ read_config
    \/ import_tech
    \/ init_openram_checkpoint
    \/ \E k \in DOMAIN Assignments : assign_option(k)
    \/ \E k \in {"supply_voltages"} : change_in_place(k)
    \/ \E key \in {"openram_temp", "output_path"} : pipeline_writes(key, Entry("f", "file", ""))
    \/ report_status
    \/ end_openram

Spec == Init /\ [][Next]_vars

\* --------------------------------------------- the directory operations alone
\* the last two directory operations, each with the file system it found
Push(t, r) == IF Len(t) = 2 THEN <<t[2], r>> ELSE Append(t, r)

TempOnly ==
    [d \in {Canon(Cwd), Canon(TempSlash)} |-> Dir(OpenMode, {})]

InitPaths ==
    /\ InitCommon
    /\ fs \in {HomeOnly, TempOnly}
    /\ umask \in Umasks
    /\ host = "ok"
    /\ argv \in CommandLines
    /\ tools = NoTools
    /\ trail = <<>>

\* something leaves an entry in the temporary directory
populate(e) ==
    /\ Idle
    /\ LET d == Canon(Get(OPTS, "openram_temp"))
       IN  /\ d \in DOMAIN fs
           /\ e \notin fs[d].entries
           /\ Cardinality(fs[d].entries) < MaxEntries
           /\ fs' = [fs EXCEPT ![d].entries = @ \cup {e}]
    /\ trail' = <<>>
    /\ UNCHANGED <<OPTS, CHECKPOINT_OPTS, options_class, heap, umask, host, pc,
                   call, log, proc, boots, edits, tools, argv>>

call_cleanup_paths ==
    /\ Idle
    /\ cleanup_paths_do
    /\ trail' = Push(trail, [op |-> "cleanup_paths", before |-> fs,
                             temp |-> Canon(Get(OPTS, "openram_temp")),
                             purge |-> Get(OPTS, "purge_temp"),
                             ok |-> proc'.state = "running"])
    /\ UNCHANGED <<OPTS, CHECKPOINT_OPTS, options_class, heap, umask, host, pc,
                   call, log, boots, edits, tools, argv>>

call_setup_paths ==
    /\ Idle
    /\ setup_paths_do(pc)
    /\ trail' = Push(trail, [op |-> "setup_paths", before |-> fs,
                             temp |-> Canon(Get(OPTS, "openram_temp")),
                             purge |-> Get(OPTS, "purge_temp"),
                             ok |-> proc'.state = "running"])
    /\ UNCHANGED <<CHECKPOINT_OPTS, options_class, heap, umask, host, log, boots,
                   edits, tools, argv>>

NextPaths ==
    \/ parse_args
    \/ \E e \in Catalogue : populate(e)
    \/ call_cleanup_paths
    \/ call_setup_paths

SpecPaths == InitPaths /\ [][NextPaths]_vars

\* ------------------------------------------------------- read_config alone
InitConfig ==
    /\ InitCommon
    /\ fs \in {HomeOnly, UsedHost}
    /\ umask = 2 * 8 + 2
    /\ host = "ok"
    /\ argv \in CommandLines
    /\ tools = NoTools
    /\ trail = <<>>

\* read_config called on its own, MaxBoots times at most: the trail keeps
\* the store it found and the store it left
call_read_config(config_file, is_unit_test) ==
    /\ Idle
    /\ boots < MaxBoots
    /\ boots' = boots + 1
    /\ read_config_do(config_file, is_unit_test, pc)
    /\ trail' = Push(trail, [op |-> "read_config", config_file |-> config_file,
                             is_unit_test |-> is_unit_test, store |-> OPTS,
                             result |-> OPTS', ok |-> proc'.state = "running"])
    /\ UNCHANGED <<CHECKPOINT_OPTS, options_class, heap, umask, host, edits,
                   tools, argv>>

NextConfig ==
    \/ parse_args
    \/ \E f \in ConfigFiles, u \in BOOLEAN : call_read_config(f, u)

SpecConfig == InitConfig /\ [][NextConfig]_vars

\* ------------------------------------------------------ the tool lookup alone
ToolDirs == {"/usr/bin", "/opt/bin"}

ToolNames == {"a", "b", "c"}

\* what the directories of PATH hold; only /usr/bin holds files that are
\* not executable
FileTables ==
    {f \in [ToolDirs \X ToolNames -> {"none", "plain", "exec"}] :
        \A n \in ToolNames : f[<<"/opt/bin", n>>] /= "plain"}

SearchPaths == {<<"/usr/bin", "/opt/bin">>, <<"/opt/bin", "/usr/bin">>, <<"/opt/bin">>}

PreferenceLists == UNION {[1..n -> ToolNames] : n \in 0..MaxPrefs}

InitTools ==
    /\ OPTS = EmptyDict
    /\ CHECKPOINT_OPTS = NoCheckpoint
    /\ options_class = OptionsClass(TempSlash)
    /\ heap = [o \in SpiceObjects |-> <<"nominal">>]
    /\ pc = "idle"
    /\ call = NoCall
    /\ log = NoLog
    /\ proc = Running
    /\ boots = 0
    /\ edits = 0
    /\ fs = HomeOnly
    /\ umask = 2 * 8 + 2
    /\ host = "ok"
    /\ argv = EmptyDict
    /\ trail = <<>>
    /\ tools \in {[NoTools EXCEPT !.PATH = p, !.files = f] :
                     p \in SearchPaths, f \in FileTables}

\* one lookup in each run: what get_tool gives depends on nothing it did before
get_tool(tool_type, preferences, default_name) ==
    /\ proc.state = "running"
    /\ tools.result.kind = "none"
    /\ LET r == get_tool_result(tools, preferences, default_name)
       IN  /\ tools' = [tools EXCEPT !.preferences = preferences,
                                     !.default_name = default_name,
                                     !.result = r]
           /\ proc' = IF r.kind = "fatal"
                      THEN debug_error("not found. Cannot find " \o tool_type \o " tool.")
                      ELSE proc
    /\ UNCHANGED <<OPTS, CHECKPOINT_OPTS, options_class, heap, fs, umask, host, pc,
                   call, log, boots, edits, argv, trail>>

NextTools ==
    \E prefs \in PreferenceLists, d \in ToolNames \cup {""} : get_tool("spice", prefs, d)

SpecTools == InitTools /\ [][NextTools]_vars

\* ================================================================= claims

\* the contents of the checkpoint, structured values read through
Deref(v) == IF v \in DOMAIN heap THEN heap[v] ELSE <<v>>

CheckpointContents ==
    [k \in DOMAIN CHECKPOINT_OPTS.dict |->
        IF k \in SpiceKeys THEN Deref(CHECKPOINT_OPTS.dict[k]) ELSE CHECKPOINT_OPTS.dict[k]]

\* C1: every key other than tech_name that the command line set and that is
\* in the store when read_config runs has, after the merge loop, the value
\* it had before it, whatever the config script defines for it.
C1_CommandLineWins ==
    log.n > 0 =>
        \A k \in (DOMAIN argv \cap DOMAIN log.pre) \ {"tech_name"} :
            k \in DOMAIN log.post /\ log.post[k] = log.pre[k]

C1_Witness ==
    /\ log.n > 0
    /\ \E k \in (DOMAIN argv \cap DOMAIN log.pre \cap DOMAIN log.config) \ {"tech_name"} :
          /\ log.pre[k] = argv[k]
          /\ log.config[k] /= log.pre[k]
          /\ log.post[k] = log.pre[k]

\* C2: when the config script defines tech_name, the store's tech_name after
\* the merge loop, and when read_config returns, is the script's value,
\* whatever the command line or parse_args had put there.
C2_ScriptTechNameWins ==
    (log.n > 0 /\ "tech_name" \in DOMAIN log.config) =>
        /\ "tech_name" \in DOMAIN log.post
        /\ log.post["tech_name"] = log.config["tech_name"]
        /\ (pc = "import_tech" => Get(OPTS, "tech_name") = log.config["tech_name"])

C2_Witness ==
    /\ log.n > 0
    /\ pc = "import_tech"
    /\ "tech_name" \in DOMAIN log.config
    /\ "tech_name" \in DOMAIN log.pre
    /\ "tech_name" \notin DOMAIN argv
    /\ log.pre["tech_name"] = "scn3me_subm"
    /\ log.config["tech_name"] = "freepdk45"
    /\ OPTS["tech_name"] = "freepdk45"

\* C3: when an init_openram call with is_unit_test=True that began with a
\* checkpoint in place has returned, the store is the checkpoint: the same
\* keys, and for each key the same value.
C3_RestoredIsCheckpoint ==
    (pc = "ready" /\ call.is_unit_test /\ call.had_checkpoint) =>
        /\ DOMAIN OPTS = DOMAIN CHECKPOINT_OPTS.dict
        /\ \A k \in DOMAIN OPTS : OPTS[k] = CHECKPOINT_OPTS.dict[k]

C3_Witness ==
    /\ pc = "ready"
    /\ call.is_unit_test
    /\ call.had_checkpoint
    /\ call.restored
    /\ edits > 0
    /\ call.config_file = "config_45"
    /\ CHECKPOINT_OPTS.dict["tech_name"] = "scn3me_subm"
    /\ OPTS = CHECKPOINT_OPTS.dict

\* C4 (as claimed): an init_openram call with is_unit_test=True that began
\* with a checkpoint in place returns without read_config having loaded and
\* merged the config script.
C4_RestoreSkipsLoad ==
    (pc = "ready" /\ call.is_unit_test /\ call.had_checkpoint) => ~call.loaded

\* C5 (as claimed): once the checkpoint exists, no step changes what it
\* holds, structured values included.
C5_CheckpointNeverChanges ==
    [][CHECKPOINT_OPTS.set =>
          /\ CHECKPOINT_OPTS' = CHECKPOINT_OPTS
          /\ CheckpointContents' = CheckpointContents]_vars

\* C6 (as claimed): when the process ends on the word_size check, this
\* bootstrap has created neither managed directory.
C6_ErrorBeforeDirectories ==
    (proc.state = "fatal" /\ proc.error = "word_size is not an integer") => call.made = {}

\* C6 (amended): when report_status, run after init_openram has returned,
\* finds a word_size that is not an integer, the process ends in the fatal
\* state with a non-zero exit status, and the temporary workspace and the
\* output directory this bootstrap prepared both exist.
C6_ErrorAfterDirectories ==
    (pc = "reported" /\ ~Get(OPTS, "word_size").isint) =>
        /\ proc.state = "fatal"
        /\ proc.exit = "nonzero"
        /\ call.temp \in DOMAIN fs
        /\ call.out \in DOMAIN fs

C6_Witness ==
    /\ pc = "reported"
    /\ call.config_file = "config_bad"
    /\ call.loaded
    /\ ~Get(OPTS, "word_size").isint
    /\ proc.state = "fatal"
    /\ call.made = {call.temp, call.out}

\* what the directory operation trail[i] left behind
After(i) == IF i = Len(trail) THEN fs ELSE trail[i + 1].before

\* C7: with the purge flag on, cleanup_paths on an existing temporary
\* directory holding files, symbolic links and sub-directories does not
\* fail and leaves the directory present and empty; called again on the
\* now-empty directory it does not fail and changes nothing.
C7_PurgeEmptiesAndRepeats ==
    /\ \A i \in 1..Len(trail) :
          (trail[i].op = "cleanup_paths" /\ trail[i].purge
              /\ trail[i].temp \in DOMAIN trail[i].before) =>
             /\ trail[i].ok
             /\ DOMAIN After(i) = DOMAIN trail[i].before
             /\ After(i)[trail[i].temp].entries = {}
             /\ After(i)[trail[i].temp].mode = trail[i].before[trail[i].temp].mode
    /\ (Len(trail) = 2
          /\ trail[1].op = "cleanup_paths" /\ trail[2].op = "cleanup_paths"
          /\ trail[1].purge /\ trail[2].purge
          /\ trail[1].temp = trail[2].temp
          /\ trail[1].temp \in DOMAIN trail[1].before) =>
             trail[2].ok /\ fs = trail[2].before

C7_Witness ==
    /\ Len(trail) = 2
    /\ trail[1].op = "cleanup_paths" /\ trail[2].op = "cleanup_paths"
    /\ trail[1].purge /\ trail[2].purge
    /\ trail[1].temp \in DOMAIN trail[1].before
    /\ {e.kind : e \in trail[1].before[trail[1].temp].entries} = {"file", "symlink", "dir"}
    /\ Entry("ld", "symlink", "dir") \in trail[1].before[trail[1].temp].entries
    /\ trail[2].before[trail[1].temp].entries = {}
    /\ fs = trail[2].before

\* C8: setup_paths' preparation of the temporary directory, run twice in
\* sequence on the same path, succeeds both times, whether or not the
\* directory existed before the first run, and leaves the directory present
\* with mode 0750.
C8_PrepareTwice ==
    (Len(trail) = 2
        /\ trail[1].op = "setup_paths" /\ trail[2].op = "setup_paths"
        /\ trail[1].temp = trail[2].temp) =>
           /\ trail[1].ok
           /\ trail[2].ok
           /\ trail[2].temp \in DOMAIN fs
           /\ fs[trail[2].temp].mode = DirMode

C8_Witness ==
    /\ Len(trail) = 2
    /\ trail[1].op = "setup_paths" /\ trail[2].op = "setup_paths"
    /\ trail[1].temp = trail[2].temp
    /\ trail[1].temp \notin DOMAIN trail[1].before
    /\ trail[2].before[trail[2].temp].mode /= DirMode
    /\ fs[trail[2].temp].mode = DirMode
    /\ proc.state = "running"

\* the places of PATH where name n is an executable
PlacesOf(n) == {i \in 1..Len(tools.PATH) : is_exe(tools, <<tools.PATH[i], n>>)}

\* the places of the preference list whose name is an executable somewhere
Hits == {i \in 1..Len(tools.preferences) : PlacesOf(tools.preferences[i]) /= {}}

Least(S) == CHOOSE x \in S : \A y \in S : x <= y

\* C9: without a default name get_tool returns the earliest name of the
\* preference list that is an executable in some directory of PATH, with
\* its place in the earliest such directory; when no name of the list is
\* found (the empty list included) it returns (None, "") and the process
\* goes on.
C9_PreferenceOrderFirst ==
    (tools.result.kind /= "none" /\ tools.default_name = "") =>
        /\ proc.state = "running"
        /\ IF Hits = {} THEN tools.result = NotFound
           ELSE LET n == tools.preferences[Least(Hits)]
                IN  tools.result = Returned(n, <<tools.PATH[Least(PlacesOf(n))], n>>)

C9_Witness ==
    /\ tools.result.kind = "return"
    /\ tools.default_name = ""
    /\ tools.preferences = <<"a", "b", "c">>
    /\ PlacesOf("a") = {2}
    /\ PlacesOf("b") = {1}
    /\ PlacesOf("c") = {1, 2}
    /\ tools.result = Returned("a", <<tools.PATH[2], "a">>)

\* C10: with a default name only that name is looked for: found, get_tool
\* returns it with its place in the earliest directory of PATH holding it;
\* not found, the process ends on the required-tool error, whatever the
\* preference list holds.
C10_DefaultOnly ==
    (tools.result.kind /= "none" /\ tools.default_name /= "") =>
        IF PlacesOf(tools.default_name) /= {}
        THEN /\ tools.result = Returned(tools.default_name,
                    <<tools.PATH[Least(PlacesOf(tools.default_name))], tools.default_name>>)
             /\ proc.state = "running"
        ELSE /\ tools.result = Fatal(tools.default_name)
             /\ proc.state = "fatal"
             /\ proc.exit = "nonzero"

C10_Witness ==
    /\ tools.default_name = "c"
    /\ PlacesOf("c") = {}
    /\ tools.preferences = <<"a", "b">>
    /\ PlacesOf("a") /= {}
    /\ tools.result = Fatal("c")
    /\ proc.state = "fatal"

\* C11: when the command line set output_path (the store holds that value
\* when read_config runs) and the config script defines a different one, the
\* output_path read_config leaves in the store ends with a separator, starts
\* with one (is absolute), names the command line's directory (under the
\* working directory when the value was relative) and not the script's.
C11_CommandLineOutputPath ==
    (log.n > 0 /\ pc = "import_tech"
        /\ "output_path" \in DOMAIN argv \cap DOMAIN log.pre \cap DOMAIN log.config
        /\ Canon(log.pre["output_path"]) = Canon(argv["output_path"])
        /\ log.config["output_path"] /= argv["output_path"]) =>
           LET r == Get(OPTS, "output_path")
               cli == argv["output_path"]
           IN  /\ EndsWithSep(r)
               /\ StartsWithSep(r)
               /\ r = (IF StartsWithSep(cli) THEN <<>> ELSE Cwd \o <<"/">>) \o cli
                          \o (IF EndsWithSep(cli) THEN <<>> ELSE <<"/">>)
               /\ Canon(r) /= Canon(log.config["output_path"])

C11_Witness ==
    /\ log.n > 0
    /\ pc = "import_tech"
    /\ argv = [output_path |-> <<"rel">>]
    /\ "output_path" \in DOMAIN log.pre \cap DOMAIN log.config
    /\ log.pre["output_path"] = <<"rel">>
    /\ log.config["output_path"] = <<"/", "tmp", "/", "y">>
    /\ OPTS["output_path"] = <<"/", "home", "/", "rel", "/">>

\* C12: when an init_openram call has returned, it took the restore step
\* if and only if it was called with is_unit_test=True while a checkpoint
\* was in place; every other call has loaded and merged its config script
\* and leaves a checkpoint in place.
C12_RestoreIffRepeat ==
    pc = "ready" =>
        /\ call.restored <=> (call.is_unit_test /\ call.had_checkpoint)
        /\ ~call.restored => (call.loaded /\ CHECKPOINT_OPTS.set)

C12_Witness ==
    /\ pc = "ready"
    /\ boots = 2
    /\ ~call.is_unit_test
    /\ call.had_checkpoint
    /\ ~call.restored
    /\ call.loaded
    /\ CHECKPOINT_OPTS.set
    /\ OPTS /= CHECKPOINT_OPTS.dict

\* C13 (as claimed): in every init_openram call the technology is loaded
\* after the restore-or-capture step: when that step is about to run
\* import_tech has not run in this call, and the checkpoint, taken before
\* the technology was loaded, holds nothing import_tech puts in the store.
C13_TechnologyAfterCheckpoint ==
    /\ (pc = "checkpoint" => call.tech = "")
    /\ (CHECKPOINT_OPTS.set =>
          /\ "openram_tech" \notin DOMAIN CHECKPOINT_OPTS.dict
          /\ \A k \in SpiceKeys \cap DOMAIN CHECKPOINT_OPTS.dict :
                 CHECKPOINT_OPTS.dict[k] \notin SpiceObjects)

C15_NoPurgeRemovesNothing ==
    \A i \in 1..Len(trail) :
        ~trail[i].purge =>
            /\ trail[i].ok
            /\ \A d \in DOMAIN trail[i].before :
                   /\ d \in DOMAIN After(i)
                   /\ After(i)[d].entries = trail[i].before[d].entries
            /\ trail[i].op = "cleanup_paths" => After(i) = trail[i].before

C15_Witness ==
    /\ Len(trail) = 2
    /\ trail[1].op = "cleanup_paths" /\ trail[2].op = "setup_paths"
    /\ ~trail[1].purge /\ ~trail[2].purge
    /\ trail[1].temp \in DOMAIN trail[1].before
    /\ {e.kind : e \in trail[1].before[trail[1].temp].entries} = {"file", "symlink", "dir"}
    /\ Entry("dd", "dir", "nonempty") \in trail[1].before[trail[1].temp].entries
    /\ fs[trail[1].temp].entries = trail[1].before[trail[1].temp].entries

\* C16: when import_tech completes, each of process_corners,
\* supply_voltages and temperatures that read "" before it holds the
\* technology's object for the store's tech_name, and each that held
\* anything else (from the command line, the config script or an earlier
\* bootstrap) holds what it held.
C16_TechDefaultsOnlyWhenUnset ==
    [][(pc = "import_tech" /\ pc' = "checkpoint") =>
          \A k \in SpiceKeys :
              Get(OPTS, k)' = IF Get(OPTS, k) = ""
                              THEN SpiceObject(Get(OPTS, "tech_name"), k)
                              ELSE Get(OPTS, k)]_vars

C16_Witness ==
    /\ pc = "checkpoint"
    /\ boots = 2
    /\ call.tech = "freepdk45"
    /\ SpiceKeys \subseteq DOMAIN OPTS
    /\ OPTS["supply_voltages"] = "supply_voltages@config_bad"
    /\ OPTS["process_corners"] = SpiceObject("scn3me_subm", "process_corners")
    /\ OPTS["temperatures"] = SpiceObject("scn3me_subm", "temperatures")

\* the output directory of the init_openram call in progress: the one
\* read_config resolved, or will resolve from the store and the script
OutputDir ==
    IF call.loaded THEN call.out
    ELSE IF call.config_file \in DOMAIN Scripts
    THEN Canon(Get(read_config_derived(merge(OPTS, Scripts[call.config_file]),
                                       call.is_unit_test), "output_path"))
    ELSE <<>>

C18_SecondReadChangesNothing ==
    (Len(trail) = 2
        /\ trail[1].op = "read_config" /\ trail[2].op = "read_config"
        /\ trail[1].ok
        /\ trail[1].config_file = trail[2].config_file
        /\ trail[1].is_unit_test = trail[2].is_unit_test
        /\ trail[2].store = trail[1].result) =>
           /\ trail[2].ok
           /\ DOMAIN trail[2].result = DOMAIN trail[1].result
           /\ \A k \in DOMAIN trail[1].result : trail[2].result[k] = trail[1].result[k]

C18_Witness ==
    /\ Len(trail) = 2
    /\ trail[1].op = "read_config" /\ trail[2].op = "read_config"
    /\ trail[1].config_file = "config_bad" /\ trail[2].config_file = "config_bad"
    /\ trail[1].is_unit_test /\ trail[2].is_unit_test
    /\ "tech_name" \in DOMAIN trail[1].store
    /\ "output_path" \notin DOMAIN trail[1].store
    /\ trail[1].result["output_path"] = <<"/", "home", "/", "out", "/">>
    /\ trail[2].store = trail[1].result
    /\ OPTS = trail[1].result

\* C19 (as claimed): whenever init_openram has returned, the technology
\* import_tech loaded during that call is the one the store's tech_name
\* names.
C19_LoadedTechIsStoreTech ==
    pc = "ready" => call.tech = Get(OPTS, "tech_name")

\* C20 (as claimed): whenever init_openram has returned, the directory the
\* store's openram_temp names exists.
C20_TempExistsAtReady ==
    pc = "ready" => Canon(Get(OPTS, "openram_temp")) \in DOMAIN fs

====
